---- MODULE Spec2Model ----
(***************************************************************************)
(* A model of the Titanium adapter for LokiJS (src/lib/adapter.js): the    *)
(* line codec _chunk, the batched collection writer of exportDatabase, the *)
(* chunked collection reader of loadDatabase, and deleteDatabase; and of   *)
(* the helper _each of the full-dump variant (src/unnamed/part_001).       *)
(*                                                                         *)
(* Text is modelled as sequences of one-character strings.  A JavaScript   *)
(* string is a sequence of characters; a Ti.Buffer is a sequence of bytes. *)
(* The two differ on the one non-ASCII character of the model, EACUTE,     *)
(* which UTF-8 encodes as the two bytes E1 E2.                             *)
(***************************************************************************)
EXTENDS Integers, Sequences, FiniteSets, TLC

VARIABLES
    writerBatch,   \* this.writer.batch
    readerBuffer,  \* this.reader.buffer
    database,      \* the caller's snapshot: collections with dirty and data
    disk,          \* the storage directory of the database name
    op,            \* the adapter call in progress or last made
    meta,          \* exportDatabase: state of the metadata descriptor
    wr,            \* exportDatabase: per collection writer (locals of the iterator)
    rd,            \* loadDatabase: per collection reader (locals of the iterator)
    each,          \* the async.each join of the call in progress
    loaded,        \* loadDatabase: collection.data of the parsed database object
    cbLog,         \* invocations of the current call's callback, in order
    faults,        \* number of I/O operations that reported failure so far
    start,         \* the disk as it was when the current call began
    prev,          \* how the previous call ended
    codec,         \* a caller feeding one input through _chunk in pieces
    iter           \* one call of _each of the full-dump variant (part_001)

vars == <<writerBatch, readerBuffer, database, disk, op, meta, wr, rd, each,
          loaded, cbLog, faults, start, prev, codec, iter>>

----------------------------------------------------------------------------
(* Bounds of the model *)

MaxDocs == 2
MaxBatch == 2
MaxCap == 3
MaxFaults == 2
MaxItems == 3
MaxInput == 7
ManyDocs == 101

(* Program constants *)

DefaultBatch == 25

----------------------------------------------------------------------------
(* Characters and bytes *)

NL == "\n"
QUOTE == "\""
BSLASH == "\\"
EACUTE == "E"        \* the character U+00E9, two bytes in UTF-8
E1 == "E1"           \* first byte of EACUTE (0xC3)
E2 == "E2"           \* second byte of EACUTE (0xA9)
NUL == "0"           \* the zero byte of a cleared buffer, decoded as U+0000
REPL == "?"          \* U+FFFD, what decoding puts for a malformed byte sequence

Colls == {0, 1}

----------------------------------------------------------------------------
(* JSON.stringify and JSON.parse, on documents that are JSON strings over  *)
(* the characters "a", "n", EACUTE, REPL and NL.                           *)

EscapeChar(ch) ==
    IF ch = NL THEN <<BSLASH, "n">>
    ELSE IF ch = QUOTE THEN <<BSLASH, QUOTE>>
    ELSE IF ch = BSLASH THEN <<BSLASH, BSLASH>>
    ELSE <<ch>>

RECURSIVE EscapeFrom(_, _)
EscapeFrom(document, i) ==
    IF i > Len(document) THEN <<>>
    ELSE EscapeChar(document[i]) \o EscapeFrom(document, i + 1)

JSONstringify(document) == <<QUOTE>> \o EscapeFrom(document, 1) \o <<QUOTE>>

ParseFail == [ok |-> FALSE, value |-> <<>>]

\* the body of a JSON string literal, from position i up to the closing quote
RECURSIVE ParseBody(_, _, _)
ParseBody(text, i, acc) ==
    IF i >= Len(text) THEN [ok |-> TRUE, value |-> acc]
    ELSE LET ch == text[i] IN
         IF ch = BSLASH
         THEN IF i + 1 >= Len(text) THEN ParseFail
              ELSE IF text[i + 1] = "n" THEN ParseBody(text, i + 2, Append(acc, NL))
              ELSE IF text[i + 1] \in {QUOTE, BSLASH}
                   THEN ParseBody(text, i + 2, Append(acc, text[i + 1]))
              ELSE ParseFail
         ELSE IF ch \in {QUOTE, NUL, NL} THEN ParseFail
         ELSE ParseBody(text, i + 1, Append(acc, ch))

JSONparse(text) ==
    IF Len(text) < 2 \/ text[1] # QUOTE \/ text[Len(text)] # QUOTE THEN ParseFail
    ELSE ParseBody(text, 2, <<>>)

----------------------------------------------------------------------------
(* Ti.createBuffer({value: string}) encodes as UTF-8; buffer.toString()    *)
(* decodes the whole buffer as UTF-8.                                      *)

\* the UTF-8 bytes of text[lo..hi], one character at a time (the range is
\* halved only to keep the evaluation shallow)
RECURSIVE EncodeRange(_, _, _)
EncodeRange(text, lo, hi) ==
    IF lo > hi THEN <<>>
    ELSE IF lo = hi THEN (IF text[lo] = EACUTE THEN <<E1, E2>> ELSE <<text[lo]>>)
    ELSE LET mid == (lo + hi) \div 2 IN
         EncodeRange(text, lo, mid) \o EncodeRange(text, mid + 1, hi)

createBuffer(text) == EncodeRange(text, 1, Len(text))

RECURSIVE DecodeFrom(_, _)
DecodeFrom(bytes, i) ==
    IF i > Len(bytes) THEN <<>>
    ELSE IF bytes[i] = E1 /\ i < Len(bytes) /\ bytes[i + 1] = E2
         THEN <<EACUTE>> \o DecodeFrom(bytes, i + 2)
    ELSE IF bytes[i] \in {E1, E2} THEN <<REPL>> \o DecodeFrom(bytes, i + 1)
    ELSE <<bytes[i]>> \o DecodeFrom(bytes, i + 1)

toString(bytes) == DecodeFrom(bytes, 1)

----------------------------------------------------------------------------
(* _chunk(initial, input, consumer): out is what the consumer received, in *)
(* order; tmp is the returned leftover; threw says JSON.parse raised, in   *)
(* which case nothing is returned and out is what was consumed before.     *)

RECURSIVE ChunkNoSkip(_, _, _, _)
ChunkNoSkip(tmp, input, i, out) ==
    IF i > Len(input) THEN [out |-> out, tmp |-> tmp, threw |-> FALSE]
    ELSE LET byte == input[i] IN
         IF byte # NL THEN ChunkNoSkip(Append(tmp, byte), input, i + 1, out)
         ELSE IF Len(tmp) = 0 THEN ChunkNoSkip(<<>>, input, i + 1, Append(out, <<>>))
         ELSE LET p == JSONparse(tmp) IN
              IF ~p.ok THEN [out |-> out, tmp |-> tmp, threw |-> TRUE]
              ELSE ChunkNoSkip(<<>>, input, i + 1, Append(out, p.value))

RECURSIVE ChunkLoop(_, _, _, _)
ChunkLoop(tmp, input, i, out) ==
    IF i > Len(input) THEN [out |-> out, tmp |-> tmp, threw |-> FALSE]
    ELSE LET byte == input[i] IN
         IF byte # NL THEN ChunkLoop(Append(tmp, byte), input, i + 1, out)
         ELSE IF Len(tmp) = 0 THEN ChunkLoop(tmp, input, i + 1, out)
         ELSE LET p == JSONparse(tmp) IN
              IF ~p.ok THEN [out |-> out, tmp |-> tmp, threw |-> TRUE]
              ELSE ChunkLoop(<<>>, input, i + 1, Append(out, p.value))

ChunkBlankAsRecord(initial, input) == ChunkNoSkip(initial, input, 1, <<>>)

ChunkForgetInitial(initial, input) == ChunkLoop(<<>>, input, 1, <<>>)

_chunk(initial, input) == ChunkLoop(initial, input, 1, <<>>)

----------------------------------------------------------------------------
(* Shapes of the state *)

NoFile == [exists |-> FALSE, bytes |-> <<>>]

NoMeta == [exists |-> FALSE, written |-> FALSE, collections |-> [c \in Colls |-> [dirty |-> FALSE, data |-> <<>>]]]

EmptyDisk == [dir |-> FALSE, meta |-> NoMeta, files |-> [c \in Colls |-> NoFile]]

\* held: the most lines the batch has held when an iteration of eachSeries
\* ended without a flush
WriterIdle ==
    [pc |-> "idle", didx |-> 0, batch |-> <<>>, open |-> FALSE, opens |-> 0,
     closes |-> 0, pending |-> <<>>, issued |-> <<>>, written |-> <<>>,
     err |-> "none", settled |-> FALSE, held |-> 0]

ReaderIdle ==
    [pc |-> "idle", pos |-> 0, offset |-> <<>>, parsed |-> 0, open |-> FALSE,
     opens |-> 0, closes |-> 0, reads |-> 0, failed |-> FALSE, err |-> "none",
     settled |-> FALSE]

EachIdle ==
    [size |-> 0, completed |-> 0, fired |-> FALSE, threw |-> FALSE, errFrom |-> -1]

NoData == [c \in Colls |-> <<>>]

CodecIdle ==
    [input |-> <<>>, rest |-> <<>>, tmp |-> <<>>, out |-> <<>>, threw |-> FALSE,
     carried |-> FALSE]

\* _each(iter, next, callback) of part_001: kinds says, item by item, whether
\* the handler calls its continuation before it returns ("ok", "error") or
\* later ("async"); started, called and failed are the items whose handler
\* has started, whose continuation has been called, and with an error;
\* exited is the variable of that name; thrown counts the ReferenceErrors
\* raised by count += 1; calls are the invocations of callback, in order
IterIdle ==
    [pc |-> "idle", kinds |-> <<>>, started |-> {}, called |-> {}, failed |-> {},
     exited |-> FALSE, thrown |-> 0, calls |-> <<>>]

----------------------------------------------------------------------------
(* async.each and the callbacks it joins *)

EachDoneFirst(e, err) ==
    IF err # "none"
    THEN [each |-> [e EXCEPT !.fired = TRUE], call |-> ~e.fired]
    ELSE [each |-> [e EXCEPT !.completed = @ + 1, !.fired = TRUE],
          call |-> ~e.fired]

\* one call of a collection's continuation (cnext / next) with err: the
\* final callback fires once, on the first error or when all have completed
\* (errFrom, kept by the actions, is the collection whose error it received)
EachDone(e, err) ==
    IF err # "none"
    THEN [each |-> [e EXCEPT !.fired = TRUE], call |-> ~e.fired]
    ELSE [each |-> [e EXCEPT !.completed = @ + 1,
                             !.fired = @ \/ (e.completed + 1 = e.size)],
          call |-> ~e.fired /\ (e.completed + 1 = e.size)]

Call(arg, data) == [arg |-> arg, data |-> data]

----------------------------------------------------------------------------
(* exportDatabase: the writer of one dirty collection *)

\* database.copy() with every collection's data emptied
Cloned(db) == [c \in Colls |-> [dirty |-> db[c].dirty, data |-> <<>>]]

copyShared(db) == [collections |-> db, own |-> FALSE]

\* database.copy(): a database whose collection objects are its own, not the
\* caller's, with the caller's documents and dirty flags
copy(db) == [collections |-> db, own |-> TRUE]

\* the caller's database after collection.data = [] on every collection of
\* the copy
AfterClear(db) == IF copy(db).own THEN db ELSE Cloned(db)

WriteNoWait(w, phase) ==
    IF Len(w.batch) = 0 THEN w
    ELSE [w EXCEPT !.pending = createBuffer(w.batch),
                   !.issued = Append(@, createBuffer(w.batch)),
                   !.batch = <<>>]

WriteKeepsBatch(w, phase) ==
    IF Len(w.batch) = 0 THEN w
    ELSE [w EXCEPT !.pc = phase, !.pending = createBuffer(w.batch),
                   !.issued = Append(@, createBuffer(w.batch))]

\* _write(cb): nothing to do on an empty batch, else one descriptor.write
\* of the whole batch, which is emptied; phase is the pc while it is pending
_write(w, phase) ==
    IF Len(w.batch) = 0 THEN w
    ELSE [w EXCEPT !.pc = phase,
                   !.pending = createBuffer(w.batch),
                   !.issued = Append(@, createBuffer(w.batch)),
                   !.batch = <<>>]

\* descriptor.close(); cnext(err1 || err2 || undefined)
CloseAndSettle(w, err) ==
    [w EXCEPT !.pc = "closed", !.open = FALSE, !.closes = @ + 1,
              !.err = err, !.settled = TRUE]

RemainingDropped(w, err1) == CloseAndSettle([w EXCEPT !.err = err1], err1)

RemainingCloseEarly(w, err1) ==
    LET f == _write([w EXCEPT !.err = err1], "flushing") IN
    IF f.pc = "flushing" THEN [f EXCEPT !.open = FALSE, !.closes = @ + 1]
    ELSE CloseAndSettle(f, err1)

\* the completion function of async.eachSeries: write remaining items
Remaining(w, err1) ==
    LET f == _write([w EXCEPT !.err = err1], "flushing") IN
    IF f.pc = "flushing" THEN f ELSE CloseAndSettle(f, err1)

FlushDueLate(didx, batch) == didx % (batch + 1) = 0

\* trigger write on batch limit: didx % this.writer.batch === 0
FlushDue(didx, batch) == didx % batch = 0

\* async.eachSeries over collection.data from document index w.didx, up to
\* the next descriptor.write or the end of the collection
RECURSIVE eachSeries(_, _)
eachSeries(w, data) ==
    IF w.didx >= Len(data) THEN Remaining(w, "none")
    ELSE LET appended ==
                 [w EXCEPT !.batch = @ \o JSONstringify(data[w.didx + 1]) \o <<NL>>]
         IN IF FlushDue(w.didx, writerBatch)
            THEN LET f == _write(appended, "writing") IN
                 IF f.pc = "writing" THEN f
                 ELSE eachSeries([f EXCEPT !.didx = @ + 1], data)
            ELSE LET lines == Cardinality({i \in 1..Len(appended.batch) :
                                               appended.batch[i] = NL})
                 IN eachSeries([appended EXCEPT
                                   !.didx = @ + 1,
                                   !.held = IF lines > @ THEN lines ELSE @],
                               data)

AlwaysDirty(collection) == TRUE

\* skip if no changes: if (!collection.dirty) return cnext()
IsDirty(collection) == collection.dirty

\* the iterator of async.each over database.collections
StartWriter(c) ==
    IF ~IsDirty(database[c])
    THEN [WriterIdle EXCEPT !.pc = "skipped", !.settled = TRUE]
    ELSE eachSeries([WriterIdle EXCEPT !.pc = "iterating", !.open = TRUE,
                                       !.opens = 1],
                    database[c].data)

WriteResultRetry(w, data, ok) ==
    LET landed == [w EXCEPT !.pending = <<>>,
                            !.written = IF ok THEN Append(@, w.pending) ELSE @]
    IN IF w.pc = "writing"
       THEN eachSeries([landed EXCEPT !.pc = "iterating", !.didx = @ + 1,
                                      !.err = IF ok THEN @ ELSE "EIO"], data)
       ELSE CloseAndSettle(landed, IF w.err # "none" THEN w.err
                                   ELSE IF ok THEN "none" ELSE "EIO")

WriteResultFailFast(w, data, ok) ==
    LET landed == [w EXCEPT !.pending = <<>>,
                            !.written = IF ok THEN Append(@, w.pending) ELSE @]
    IN IF each.fired THEN CloseAndSettle(landed, "none")
       ELSE IF w.pc = "writing"
       THEN IF ok THEN eachSeries([landed EXCEPT !.pc = "iterating", !.didx = @ + 1], data)
            ELSE Remaining([landed EXCEPT !.pc = "iterating"], "EIO")
       ELSE CloseAndSettle(landed, IF w.err # "none" THEN w.err
                                   ELSE IF ok THEN "none" ELSE "EIO")

\* the callback of descriptor.write
WriteResult(w, data, ok) ==
    LET landed == [w EXCEPT !.pending = <<>>,
                            !.written = IF ok THEN Append(@, w.pending) ELSE @]
    IN IF w.pc = "writing"
       THEN IF ok THEN eachSeries([landed EXCEPT !.pc = "iterating", !.didx = @ + 1], data)
            ELSE Remaining([landed EXCEPT !.pc = "iterating"], "EIO")
       ELSE CloseAndSettle(landed, IF w.err # "none" THEN w.err
                                   ELSE IF ok THEN "none" ELSE "EIO")

----------------------------------------------------------------------------
(* loadDatabase: the reader of one collection *)

Zeros(n) == [i \in 1..n |-> NUL]

\* stream.read(buffer, ...) at file position pos: the bytes processed (-1 at
\* the end of the stream) and the buffer, zero where nothing was read into it
ReadAt(bytes, pos) ==
    LET remaining == Len(bytes) - pos
        n == IF remaining = 0 THEN -1
             ELSE IF remaining < readerBuffer THEN remaining ELSE readerBuffer
        got == IF n = -1 THEN 0 ELSE n
    IN [bytesProcessed |-> n,
        buffer |-> SubSeq(bytes, pos + 1, pos + got) \o Zeros(readerBuffer - got)]

\* _complete(): chunk any remaining entries through, close handle, next()
_complete(r, data) ==
    LET ch == _chunk(<<>>, r.offset) IN
    IF ch.threw THEN [rd |-> [r EXCEPT !.pc = "thrown"], data |-> data \o ch.out]
    ELSE [rd |-> [r EXCEPT !.pc = "done", !.open = FALSE, !.closes = @ + 1,
                           !.settled = TRUE],
          data |-> data \o ch.out]

FailedRead(r, data) ==
    IF r.parsed # 0 THEN _complete([r EXCEPT !.failed = TRUE], data)
    ELSE [rd |-> [r EXCEPT !.pc = "failed", !.failed = TRUE, !.err = "EIO",
                           !.settled = TRUE],
          data |-> data]

\* the callback of stream.read, for collection data read so far
ReadResult(r, data, bytes, ok) ==
    IF ~ok THEN FailedRead(r, data)
    ELSE LET res == ReadAt(bytes, r.pos)
             ch == _chunk(r.offset, toString(res.buffer))
         IN IF ch.threw
            THEN [rd |-> [r EXCEPT !.pc = "thrown"], data |-> data \o ch.out]
            ELSE LET r2 == [r EXCEPT !.offset = ch.tmp,
                                     !.parsed = res.bytesProcessed,
                                     !.pos = IF res.bytesProcessed > 0
                                             THEN @ + res.bytesProcessed ELSE @]
                 IN IF res.bytesProcessed = readerBuffer
                    THEN [rd |-> [r2 EXCEPT !.reads = @ + 1], data |-> data \o ch.out]
                    ELSE _complete(r2, data \o ch.out)

MetaAssumed(d) == TRUE

\* meta.exists()
MetaExists(d) == d.meta.exists

----------------------------------------------------------------------------
(* The adapter's calls.  A call begins only when no I/O of an earlier call *)
(* is outstanding: the caller runs one export or load at a time.  A run    *)
(* ends with the call in which an I/O operation reports failure.           *)

Pending ==
    \/ meta = "writing"
    \/ \E c \in Colls : wr[c].pc \in {"writing", "flushing"}
    \/ \E c \in Colls : rd[c].pc = "reading"

MayCall == ~Pending /\ faults = 0

\* how the call that is ending went, for the next call's prev
Ended ==
    IF op = "export" /\ cbLog = <<Call("ok", NoData)>> THEN "exportOk"
    ELSE IF op = "idle" THEN "none"
    ELSE IF op = "delete" THEN "deleted"
    ELSE "other"

exportDatabaseEager ==
    /\ MayCall
    /\ op' = "export"
    /\ start' = disk
    /\ prev' = Ended
    /\ disk' = [disk EXCEPT !.dir = TRUE,
                            !.meta = [NoMeta EXCEPT !.exists = TRUE]]
    /\ meta' = "writing"
    /\ wr' = [c \in Colls |-> StartWriter(c)]
    /\ rd' = [c \in Colls |-> ReaderIdle]
    /\ each' = EachIdle
    /\ loaded' = NoData
    /\ cbLog' = <<>>
    /\ UNCHANGED <<writerBatch, readerBuffer, database, faults, codec, iter>>

exportDatabase ==
    /\ MayCall
    /\ op' = "export"
    /\ database' = AfterClear(database)
    /\ start' = disk
    /\ prev' = Ended
    /\ disk' = [disk EXCEPT !.dir = TRUE,
                            !.meta = [NoMeta EXCEPT !.exists = TRUE]]
    /\ meta' = "writing"
    /\ wr' = [c \in Colls |-> WriterIdle]
    /\ rd' = [c \in Colls |-> ReaderIdle]
    /\ each' = EachIdle
    /\ loaded' = NoData
    /\ cbLog' = <<>>
    /\ UNCHANGED <<writerBatch, readerBuffer, faults, codec, iter>>

\* the callback of meta.write reports failure
MetaWriteFailed ==
    /\ op = "export" /\ meta = "writing"
    /\ faults < MaxFaults
    /\ faults' = faults + 1
    /\ meta' = "open"
    /\ cbLog' = Append(cbLog, Call("error", NoData))
    /\ UNCHANGED <<writerBatch, readerBuffer, database, disk, op, wr, rd, each,
                   loaded, start, prev, codec, iter>>

\* the callback of meta.write reports success: close, then async.each
MetaWritten ==
    /\ op = "export" /\ meta = "writing"
    /\ meta' = "closed"
    /\ LET started == [c \in Colls |-> StartWriter(c)]
           settled == Cardinality({c \in Colls : started[c].settled})
           size == Cardinality(Colls)
       IN /\ wr' = started
          /\ disk' = [disk EXCEPT
                 !.meta = [exists |-> TRUE, written |-> TRUE,
                           collections |-> Cloned(database)],
                 !.files = [c \in Colls |->
                              IF started[c].opens > 0
                              THEN [exists |-> TRUE, bytes |-> <<>>]
                              ELSE disk.files[c]]]
          /\ each' = [size |-> size, completed |-> settled,
                      fired |-> settled = size, threw |-> FALSE, errFrom |-> -1]
          /\ cbLog' = IF settled = size THEN Append(cbLog, Call("ok", NoData))
                      ELSE cbLog
    /\ UNCHANGED <<writerBatch, readerBuffer, database, op, rd, loaded, faults,
                   start, prev, codec, iter>>

\* the callback of a collection's descriptor.write
WriteDone(c, ok) ==
    /\ op = "export"
    /\ wr[c].pc \in {"writing", "flushing"}
    /\ ok \/ faults < MaxFaults
    /\ faults' = IF ok THEN faults ELSE faults + 1
    /\ LET w == WriteResult(wr[c], database[c].data, ok)
           j == EachDone(each, w.err)
       IN /\ wr' = [wr EXCEPT ![c] = w]
          /\ disk' = IF ok
                     THEN [disk EXCEPT !.files[c].bytes = @ \o wr[c].pending]
                     ELSE disk
          /\ each' = IF w.settled
                     THEN [j.each EXCEPT
                              !.errFrom = IF j.call /\ w.err # "none" THEN c ELSE @]
                     ELSE each
          /\ cbLog' = IF w.settled /\ j.call
                      THEN Append(cbLog, Call(IF w.err = "none" THEN "ok" ELSE "error",
                                              NoData))
                      ELSE cbLog
    /\ UNCHANGED <<writerBatch, readerBuffer, database, op, meta, rd, loaded,
                   start, prev, codec, iter>>

\* the collections whose read stream loadDatabase opens before it returns:
\* all of them, or those before the first one whose file is missing
Opened(d) == {c \in Colls : \A b \in Colls : b <= c => d.files[b].exists}

loadDatabase ==
    /\ MayCall
    /\ op' = "load"
    /\ start' = disk
    /\ prev' = Ended
    /\ meta' = "none"
    /\ wr' = [c \in Colls |-> WriterIdle]
    /\ loaded' = NoData
    /\ IF ~MetaExists(disk)
       THEN /\ cbLog' = <<Call("undefined", NoData)>>
            /\ rd' = [c \in Colls |-> ReaderIdle]
            /\ each' = EachIdle
       ELSE /\ cbLog' = <<>>
            /\ rd' = [c \in Colls |->
                        IF disk.meta.written /\ c \in Opened(disk)
                        THEN [ReaderIdle EXCEPT !.pc = "reading", !.open = TRUE,
                                                !.opens = 1, !.reads = 1]
                        ELSE ReaderIdle]
            /\ each' = [size |-> Cardinality(Colls), completed |-> 0,
                        fired |-> FALSE,
                        threw |-> ~disk.meta.written \/ Opened(disk) # Colls,
                        errFrom |-> -1]
    /\ UNCHANGED <<writerBatch, readerBuffer, database, disk, faults, codec, iter>>

\* the callback of a collection's stream.read
ReadDone(c, ok) ==
    /\ op = "load"
    /\ rd[c].pc = "reading"
    /\ ok \/ faults < MaxFaults
    /\ faults' = IF ok THEN faults ELSE faults + 1
    /\ LET res == ReadResult(rd[c], loaded[c], disk.files[c].bytes, ok)
           j == EachDone(each, res.rd.err)
           data == [loaded EXCEPT ![c] = res.data]
       IN /\ rd' = [rd EXCEPT ![c] = res.rd]
          /\ loaded' = data
          /\ each' = IF res.rd.settled
                     THEN [j.each EXCEPT
                              !.errFrom = IF j.call /\ res.rd.err # "none" THEN c ELSE @]
                     ELSE each
          /\ cbLog' = IF res.rd.settled /\ j.call
                      THEN Append(cbLog, Call("database", data))
                      ELSE cbLog
    /\ UNCHANGED <<writerBatch, readerBuffer, database, disk, op, meta, wr,
                   start, prev, codec, iter>>

\* getFile(ROOT, parent, name).deleteDirectory(true): the directory and what
\* is in it are gone; false is returned when there was no directory
deleteDirectory(d) == [removed |-> d.dir, disk |-> EmptyDisk]

DeleteOutcomeChecked(removed) == IF removed THEN "ok" ELSE "error"

\* callback(): no argument, whatever deleteDirectory returned
DeleteOutcome(removed) == "ok"

deleteDatabase ==
    /\ MayCall
    /\ op' = "delete"
    /\ start' = disk
    /\ prev' = Ended
    /\ disk' = deleteDirectory(disk).disk
    /\ meta' = "none"
    /\ wr' = [c \in Colls |-> WriterIdle]
    /\ rd' = [c \in Colls |-> ReaderIdle]
    /\ each' = EachIdle
    /\ loaded' = NoData
    /\ cbLog' = <<Call(DeleteOutcome(deleteDirectory(disk).removed), NoData)>>
    /\ UNCHANGED <<writerBatch, readerBuffer, database, faults, codec, iter>>

----------------------------------------------------------------------------
(* Initial states: the adapter's options, the caller's snapshot, and what  *)
(* the storage directory holds                                             *)

DocKinds == << <<"a">>, <<EACUTE>>, <<NL>> >>

DocAt(c, i) == DocKinds[((2 * c + i - 1) % 3) + 1]

Documents(c, n) == [i \in 1..n |-> DocAt(c, i)]

WellFormed == <<QUOTE, "a", QUOTE, NL>>
BlankLine == <<QUOTE, "a", QUOTE, NL, NL, QUOTE, QUOTE, NL>>
Unterminated == <<QUOTE, "a", QUOTE, NL, QUOTE, QUOTE>>
Malformed == <<QUOTE, "a", QUOTE, NL, "a", NL, QUOTE, QUOTE, NL>>

SeedFiles == {WellFormed, BlankLine, Unterminated, Malformed}

InitCalls ==
    /\ op = "idle"
    /\ meta = "none"
    /\ wr = [c \in Colls |-> WriterIdle]
    /\ rd = [c \in Colls |-> ReaderIdle]
    /\ each = EachIdle
    /\ loaded = NoData
    /\ cbLog = <<>>
    /\ faults = 0
    /\ start = disk
    /\ prev = "none"
    /\ codec = CodecIdle
    /\ iter = IterIdle

\* nothing stored yet
InitFresh ==
    /\ writerBatch \in 1..MaxBatch
    /\ readerBuffer \in 1..MaxCap
    /\ \E n \in [Colls -> 0..MaxDocs], dirty \in [Colls -> BOOLEAN] :
          database = [c \in Colls |-> [dirty |-> dirty[c], data |-> Documents(c, n[c])]]
    /\ disk = EmptyDisk

\* a stored database whose collection files were written by other hands
InitSeeded ==
    /\ writerBatch \in 1..MaxBatch
    /\ readerBuffer \in 1..MaxCap
    /\ \E dirty \in [Colls -> BOOLEAN] :
          database = [c \in Colls |-> [dirty |-> dirty[c], data |-> Documents(c, MaxDocs)]]
    /\ \E f \in [Colls -> SeedFiles] :
          /\ Cardinality({c \in Colls : f[c] # WellFormed}) <= 1
          /\ disk = [dir |-> TRUE,
                  meta |-> [exists |-> TRUE, written |-> TRUE,
                            collections |-> Cloned(database)],
                  files |-> [c \in Colls |-> [exists |-> TRUE, bytes |-> f[c]]]]

\* the default batch size and a collection of many documents
InitMany ==
    /\ writerBatch = DefaultBatch
    /\ readerBuffer \in 1..MaxCap
    /\ database = [c \in Colls |->
                     [dirty |-> TRUE,
                      data |-> IF c = 0 THEN Documents(c, ManyDocs) ELSE <<>>]]
    /\ disk = EmptyDisk

Init == (InitFresh \/ InitSeeded \/ InitMany) /\ InitCalls

Next ==
    \/ exportDatabase
    \/ MetaWriteFailed
    \/ MetaWritten
    \/ \E c \in Colls, ok \in BOOLEAN : WriteDone(c, ok)
    \/ loadDatabase
    \/ \E c \in Colls, ok \in BOOLEAN : ReadDone(c, ok)
    \/ deleteDatabase

Spec == Init /\ [][Next]_vars

----------------------------------------------------------------------------
(* A caller of _chunk: one input, cut into consecutive chunks of any       *)
(* sizes, each call given the leftover the previous call returned          *)
(* (loadDatabase/_read: offset = _chunk(offset, bytes, ...)).              *)

ChunkAlphabet == {QUOTE, "a", NL}

ChunkInputs == UNION {[1..n -> ChunkAlphabet] : n \in 0..MaxInput}

InitChunk ==
    /\ writerBatch = 1
    /\ readerBuffer = 1
    /\ database = [c \in Colls |-> [dirty |-> FALSE, data |-> <<>>]]
    /\ disk = EmptyDisk
    /\ op = "idle"
    /\ meta = "none"
    /\ wr = [c \in Colls |-> WriterIdle]
    /\ rd = [c \in Colls |-> ReaderIdle]
    /\ each = EachIdle
    /\ loaded = NoData
    /\ cbLog = <<>>
    /\ faults = 0
    /\ start = EmptyDisk
    /\ prev = "none"
    /\ iter = IterIdle
    /\ \E input \in ChunkInputs :
          codec = [CodecIdle EXCEPT !.input = input, !.rest = input]

FeedChunk(k) ==
    /\ ~codec.threw
    /\ k \in 1..Len(codec.rest)
    /\ LET r == _chunk(codec.tmp, SubSeq(codec.rest, 1, k)) IN
       codec' = [codec EXCEPT
                    !.rest = SubSeq(codec.rest, k + 1, Len(codec.rest)),
                    !.tmp = IF r.threw THEN codec.tmp ELSE r.tmp,
                    !.out = codec.out \o r.out,
                    !.threw = r.threw,
                    !.carried = codec.carried \/ Len(codec.tmp) > 0]
    /\ UNCHANGED <<writerBatch, readerBuffer, database, disk, op, meta, wr, rd,
                   each, loaded, cbLog, faults, start, prev, iter>>

NextChunk == \E k \in 1..MaxInput : FeedChunk(k)

SpecChunk == InitChunk /\ [][NextChunk]_vars

----------------------------------------------------------------------------
(* _each of the full-dump variant *)

\* the continuation _each hands to the handler of item i, called with or
\* without an error: count is not declared (counts is), so count += 1 raises
\* a ReferenceError and nothing after it runs
EachContinuation(s, i, err) ==
    LET c == [s EXCEPT !.called = @ \cup {i},
                       !.failed = IF err THEN @ \cup {i} ELSE @]
    IN IF s.exited THEN c
       ELSE IF err THEN [c EXCEPT !.exited = TRUE, !.calls = Append(@, "error")]
       ELSE [c EXCEPT !.thrown = @ + 1]

\* iter.forEach from item i on: a ReferenceError raised while a handler is
\* still running leaves forEach, and the items after it are never started
RECURSIVE EachFrom(_, _)
EachFrom(s, i) ==
    IF i > Len(s.kinds) THEN s
    ELSE LET begun == [s EXCEPT !.started = @ \cup {i}] IN
         IF s.kinds[i] = "async" THEN EachFrom(begun, i + 1)
         ELSE LET c == EachContinuation(begun, i, s.kinds[i] = "error") IN
              IF c.thrown > begun.thrown THEN c ELSE EachFrom(c, i + 1)

InitEach ==
    /\ writerBatch = 1
    /\ readerBuffer = 1
    /\ database = [c \in Colls |-> [dirty |-> FALSE, data |-> <<>>]]
    /\ disk = EmptyDisk
    /\ op = "idle"
    /\ meta = "none"
    /\ wr = [c \in Colls |-> WriterIdle]
    /\ rd = [c \in Colls |-> ReaderIdle]
    /\ each = EachIdle
    /\ loaded = NoData
    /\ cbLog = <<>>
    /\ faults = 0
    /\ start = EmptyDisk
    /\ prev = "none"
    /\ codec = CodecIdle
    /\ \E n \in 0..MaxItems : \E kinds \in [1..n -> {"ok", "error", "async"}] :
          iter = [IterIdle EXCEPT !.kinds = kinds]

\* _each(iter, next, callback), up to its return or the ReferenceError
_each ==
    /\ iter.pc = "idle"
    /\ iter' = IF Len(iter.kinds) = 0
               THEN [iter EXCEPT !.pc = "returned", !.calls = Append(@, "ok")]
               ELSE LET s == EachFrom(iter, 1) IN
                    [s EXCEPT !.pc = IF s.thrown > 0 THEN "threw" ELSE "returned"]
    /\ UNCHANGED <<writerBatch, readerBuffer, database, disk, op, meta, wr, rd,
                   each, loaded, cbLog, faults, start, prev, codec>>

\* a handler that did not call its continuation before returning calls it
Later(i, err) ==
    /\ iter.pc # "idle"
    /\ i \in iter.started \ iter.called
    /\ iter.kinds[i] = "async"
    /\ iter' = EachContinuation(iter, i, err)
    /\ UNCHANGED <<writerBatch, readerBuffer, database, disk, op, meta, wr, rd,
                   each, loaded, cbLog, faults, start, prev, codec>>

NextEach == _each \/ \E i \in 1..MaxItems, err \in BOOLEAN : Later(i, err)

SpecEach == InitEach /\ [][NextEach]_vars

\* every input character handed to _chunk so far
CodecFed == Len(codec.rest) = 0 \/ codec.threw

\* the lines of text that a newline ends and that are not empty
NonEmptyLines(text) ==
    Cardinality({i \in 2..Len(text) : text[i] = NL /\ text[i - 1] # NL})

\* C2: feeding an input to _chunk in consecutive chunks, carrying the
\* leftover forward, gives the consumer the same records and ends with the
\* same leftover (or the same parse error) as one call on the whole input.
ChunkBoundaryIndependence ==
    LET whole == _chunk(<<>>, codec.input) IN
    CodecFed =>
        /\ codec.out = whole.out
        /\ codec.threw = whole.threw
        /\ (~whole.threw => codec.tmp = whole.tmp)

ChunkSplitWitness ==
    /\ Len(codec.rest) = 0
    /\ ~codec.threw
    /\ codec.carried
    /\ Len(codec.out) >= 2
    /\ Len(codec.tmp) > 0

\* C7 as stated: for any input the number of records emitted equals the
\* number of non-empty newline-terminated lines.
EmittedEqualsNonEmptyLines ==
    CodecFed => Len(codec.out) = NonEmptyLines(codec.input)

\* C7 amended: whenever _chunk returns (no completed line fails to parse),
\* the number of records emitted equals the number of non-empty
\* newline-terminated lines; empty lines emit nothing.
EmptyLineTolerance ==
    (CodecFed /\ ~codec.threw) => Len(codec.out) = NonEmptyLines(codec.input)

BlankLineWitness ==
    /\ codec.input = <<QUOTE, QUOTE, NL, NL, QUOTE, QUOTE, NL>>
    /\ Len(codec.rest) = 0
    /\ codec.carried
    /\ codec.out = << <<>>, <<>> >>

----------------------------------------------------------------------------
(* Properties of exportDatabase and loadDatabase *)

RECURSIVE Flatten(_)
Flatten(buffers) ==
    IF Len(buffers) = 0 THEN <<>> ELSE Head(buffers) \o Flatten(Tail(buffers))

\* JSON.stringify(document) + '\n' over data[lo..hi], in order
RECURSIVE LinesOf(_, _, _)
LinesOf(data, lo, hi) ==
    IF lo > hi THEN <<>>
    ELSE IF lo = hi THEN JSONstringify(data[lo]) \o <<NL>>
    ELSE LET mid == (lo + hi) \div 2 IN
         LinesOf(data, lo, mid) \o LinesOf(data, mid + 1, hi)

Newlines(bytes) == Cardinality({i \in 1..Len(bytes) : bytes[i] = NL})

DocsPerWrite(buffers) == [i \in 1..Len(buffers) |-> Newlines(buffers[i])]

AllDirty == \A c \in Colls : database[c].dirty

SnapshotData == [c \in Colls |-> database[c].data]

ExportedOk == op = "export" /\ cbLog # <<>> /\ cbLog[1].arg = "ok"

\* C1: after an export of an all-dirty snapshot that completed without error,
\* a load without I/O failure calls back with a database whose collections
\* hold exactly the exported documents, in order.
RoundTrip ==
    (op = "load" /\ prev = "exportOk" /\ AllDirty /\ faults = 0 /\ ~Pending)
        => /\ cbLog = <<Call("database", SnapshotData)>>
           /\ loaded = SnapshotData

\* C3: a loaded collection has one document per non-empty line of its file,
\* the unterminated final line included.
EndOfStreamFlush ==
    \A c \in Colls :
        LET bytes == disk.files[c].bytes IN
        (op = "load" /\ rd[c].pc = "done" /\ ~rd[c].failed
            /\ Len(bytes) > 0 /\ bytes[Len(bytes)] # NL)
          => Len(loaded[c]) = NonEmptyLines(Append(bytes, NL))

\* C4: 101 documents at batch size 25 are written by exactly 5 writes, four
\* of 25 documents followed by one of 1 document.
BatchDeterminism ==
    \A c \in Colls :
        (op = "export" /\ writerBatch = DefaultBatch /\ database[c].dirty
            /\ Len(database[c].data) = ManyDocs
            /\ wr[c].settled /\ wr[c].err = "none")
          => DocsPerWrite(wr[c].issued)
                = [i \in 1..5 |-> IF i <= 4 THEN DefaultBatch ELSE 1]

\* C5: once an export has completed without error, what was written to each
\* dirty collection's descriptor, in write order, is the documents' JSON
\* lines in insertion order, each ended by a newline; that is the file, which
\* has as many lines as the collection has documents.
PersistedLines ==
    ExportedOk =>
        \A c \in Colls :
            database[c].dirty =>
                LET data == database[c].data
                    lines == createBuffer(LinesOf(data, 1, Len(data)))
                IN /\ wr[c].issued = wr[c].written
                   /\ Flatten(wr[c].written) = lines
                   /\ disk.files[c] = [exists |-> TRUE, bytes |-> lines]
                   /\ Newlines(lines) = Len(data)
                   /\ (Len(data) > 0 => lines[Len(lines)] = NL)

PersistedLinesWitness ==
    /\ ExportedOk
    /\ \E c \in Colls :
          /\ database[c].dirty
          /\ writerBatch = 2
          /\ Len(database[c].data) = 2
          /\ Len(wr[c].written) = 2
          /\ \E i \in 1..Len(database[c].data) : NL \in {database[c].data[i][k] : k \in 1..Len(database[c].data[i])}

\* C6: a collection that is not dirty has no descriptor opened and no write
\* issued during an export, its file is as it was when the export began, and
\* it reports no error.
DirtySkip ==
    op = "export" =>
        \A c \in Colls :
            ~database[c].dirty =>
                /\ wr[c].opens = 0
                /\ wr[c].issued = <<>>
                /\ wr[c].err = "none"
                /\ disk.files[c] = start.files[c]

DirtySkipWitness ==
    /\ ExportedOk
    /\ \E c, d \in Colls :
          /\ ~database[c].dirty
          /\ wr[c].pc = "skipped"
          /\ Len(start.files[c].bytes) > 0
          /\ database[d].dirty
          /\ Len(wr[d].written) > 0

\* C8: a load that finds no metadata file calls back exactly once, with
\* undefined, opens no collection stream, issues no read and leaves the
\* storage as it was.
NotFound ==
    (op = "load" /\ ~start.meta.exists) =>
        /\ cbLog = <<Call("undefined", NoData)>>
        /\ ~each.threw
        /\ \A c \in Colls : rd[c].opens = 0 /\ rd[c].reads = 0
        /\ disk = start

NotFoundWitness ==
    /\ op = "load"
    /\ ~start.meta.exists
    /\ cbLog # <<>>

\* the documents of a collection file, when every line of it parses
FileDocs(bytes) == _chunk(<<>>, toString(bytes))

\* C9: when exactly one collection's file holds a completed line that is not
\* valid JSON, the load still calls back, every other collection holds all of
\* its documents, and the failing collection reports a parse failure.
MalformedIsolation ==
    \A m \in Colls :
        (op = "load" /\ ~Pending /\ faults = 0 /\ start.meta.written
            /\ (\A c \in Colls : disk.files[c].exists)
            /\ FileDocs(disk.files[m].bytes).threw
            /\ (\A c \in Colls \ {m} : ~FileDocs(disk.files[c].bytes).threw))
          => /\ cbLog # <<>>
             /\ rd[m].err = "parse"
             /\ \A c \in Colls \ {m} : rd[c].pc = "done"

\* C10: a collection whose read reported failure ends with that error as its
\* outcome, and the error is what the load's callback receives.
ReadFailureSurfaced ==
    \A c \in Colls :
        (op = "load" /\ rd[c].failed) =>
            /\ rd[c].err = "EIO"
            /\ (cbLog # <<>> => cbLog[1].arg = "error")

\* a write on collection c's descriptor has reported failure in this export
WriteFailed(c) == op = "export" /\ wr[c].err = "EIO"

\* the failed write is the last one issued on the descriptor, which is closed
\* once, and the error is the outcome the collection's writer settled with
FailedWriterStopped(c) ==
    /\ wr[c].pc = "closed" /\ wr[c].settled
    /\ ~wr[c].open /\ wr[c].opens = 1 /\ wr[c].closes = 1
    /\ wr[c].pending = <<>> /\ wr[c].batch = <<>>
    /\ Len(wr[c].issued) = Len(wr[c].written) + 1

\* C11 as stated: after a failed write on a dirty collection's descriptor no
\* further write is issued on it, it is closed, and that write's error is the
\* error the export callback receives.
WriteFailureReachesCallback ==
    \A c \in Colls :
        WriteFailed(c) => /\ FailedWriterStopped(c)
                          /\ cbLog = <<Call("error", NoData)>>
                          /\ each.errFrom = c

\* C11: after a failed write on a dirty collection's descriptor no further
\* write is issued on it, it is closed, the error is the collection's outcome,
\* and the export callback has been invoked once, with the error of the first
\* collection whose write failed (a later collection's error is dropped).
WriteFailureSettles ==
    \A c \in Colls :
        WriteFailed(c) => /\ FailedWriterStopped(c)
                          /\ cbLog = <<Call("error", NoData)>>
                          /\ each.errFrom \in Colls
                          /\ WriteFailed(each.errFrom)

\* the first of two batch writes succeeded and the second failed while
\* documents were still to come; a second collection's write failed later
WriteFailureWitness ==
    \E c, d \in Colls :
        /\ c # d /\ WriteFailed(c) /\ WriteFailed(d)
        /\ each.errFrom = c
        /\ Len(wr[d].written) = 1 /\ Len(wr[d].issued) = 2
        /\ wr[d].didx < Len(database[d].data)

\* collection c's writer has written every document, in order, and closed
FullyWritten(c) ==
    LET lines == createBuffer(LinesOf(database[c].data, 1, Len(database[c].data))) IN
    /\ wr[c].pc = "closed" /\ wr[c].settled /\ wr[c].err = "none"
    /\ ~wr[c].open /\ wr[c].opens = 1 /\ wr[c].closes = 1
    /\ wr[c].written = wr[c].issued
    /\ Flatten(wr[c].written) = lines
    /\ disk.files[c] = [exists |-> TRUE, bytes |-> lines]

\* C12: when a write on one dirty collection has failed and no write is
\* outstanding any more, every dirty collection without a failure of its own
\* has all its documents written, in order, and its descriptor closed.
FailureIsolation ==
    (op = "export" /\ ~Pending /\ \E f \in Colls : WriteFailed(f))
        => \A c \in Colls :
               (database[c].dirty /\ ~WriteFailed(c)) => FullyWritten(c)

\* collection f's first write failed and was reported to the export callback;
\* the other collection has completed both its writes and closed
FailureIsolationWitness ==
    \E f, c \in Colls :
        /\ op = "export" /\ ~Pending
        /\ WriteFailed(f) /\ wr[f].written = <<>>
        /\ database[c].dirty /\ ~WriteFailed(c)
        /\ Len(wr[c].written) = 2 /\ each.errFrom = f

\* C13: once the export callback has been invoked, the metadata write has
\* completed, every dirty collection's writer has settled, and so no write or
\* close takes place after the callback.
ExportCompletionOrdering ==
    (op = "export" /\ cbLog # <<>>)
        => /\ meta # "writing"
           /\ \A c \in Colls :
                  /\ wr[c].pc \in {"idle", "skipped", "closed"}
                  /\ wr[c].pending = <<>> /\ ~wr[c].open

\* C14: once the load callback has been invoked, no collection's read is
\* outstanding and the collections hold exactly the documents the callback
\* was given: nothing is appended after the callback.
LoadCompletionOrdering ==
    (op = "load" /\ cbLog # <<>>)
        => /\ \A c \in Colls : rd[c].pc # "reading"
           /\ loaded = cbLog[1].data

\* C15: deleteDatabase invokes its callback exactly once, with no error,
\* whether or not the directory existed, and leaves no directory; so does a
\* second deleteDatabase right after the first.
DeletionIdempotence ==
    op = "delete" => /\ cbLog = <<Call("ok", NoData)>>
                     /\ disk = EmptyDisk
                     /\ ~Pending

\* a deleteDatabase right after a deleteDatabase: there was no directory
\* left to delete
DeletionTwiceWitness ==
    /\ op = "delete" /\ prev = "deleted"
    /\ start = EmptyDisk
    /\ cbLog = <<Call("ok", NoData)>>

\* C16: a collection of n documents exported at batch size B is written by
\* ceil(n / B) writes, each but the last carrying exactly B documents (the
\* flushes triggered on the B-th, 2B-th, ... document) and the last carrying
\* the rest.
FlushTriggerRule ==
    \A c \in Colls :
        LET n == Len(database[c].data)
            writes == DocsPerWrite(wr[c].issued)
            count == (n + writerBatch - 1) \div writerBatch
        IN (op = "export" /\ database[c].dirty /\ wr[c].settled /\ wr[c].err = "none")
             => /\ Len(writes) = count
                /\ \A i \in 1..Len(writes) :
                       writes[i] = IF i < count THEN writerBatch
                                   ELSE n - (count - 1) * writerBatch

\* C17: the batch of a collection writer never holds more than batchSize
\* serialized documents, and every write issued carries at least one and at
\* most batchSize lines: an empty buffer is never written.
BoundedBatch ==
    \A c \in Colls :
        /\ Newlines(createBuffer(wr[c].batch)) <= writerBatch
        /\ \A i \in 1..Len(wr[c].issued) :
               /\ Len(wr[c].issued[i]) > 0
               /\ Newlines(wr[c].issued[i]) >= 1
               /\ Newlines(wr[c].issued[i]) <= writerBatch
        /\ wr[c].pending # <<>> => Newlines(wr[c].pending) \in 1..writerBatch

\* a write carrying a full batch of more than one document has been issued,
\* after a first write of a single document
BoundedBatchWitness ==
    \E c \in Colls :
        /\ op = "export" /\ writerBatch > 1
        /\ Len(wr[c].issued) >= 2
        /\ Newlines(wr[c].issued[1]) = 1
        /\ Newlines(wr[c].issued[2]) = writerBatch

\* C18: when an export or a load has no I/O outstanding, every descriptor it
\* opened (the metadata descriptor, each dirty collection's descriptor, each
\* collection's read stream) has been closed exactly once, also after a
\* failed metadata write, a failed collection write, a failed first read or a
\* parse failure.
DescriptorLifetime ==
    (op \in {"export", "load"} /\ ~Pending)
        => /\ meta \in {"none", "closed"}
           /\ \A c \in Colls :
                  /\ ~wr[c].open /\ wr[c].closes = wr[c].opens
                  /\ ~rd[c].open /\ rd[c].closes = rd[c].opens

\* C19: a collection's descriptor is closed only when every write issued on
\* it, the final residual flush included, has reported completion, and no
\* write is issued on it once it is closed.
CloseAfterLastFlush ==
    \A c \in Colls :
        wr[c].closes > 0
            => /\ wr[c].pc = "closed" /\ wr[c].closes = 1 /\ ~wr[c].open
               /\ wr[c].pending = <<>> /\ wr[c].batch = <<>>
               /\ Len(wr[c].issued)
                     = Len(wr[c].written) + (IF wr[c].err = "none" THEN 0 ELSE 1)

\* closed after the residual flush of the second of two documents completed
CloseAfterLastFlushWitness ==
    \E c \in Colls :
        /\ op = "export" /\ writerBatch = 2 /\ Len(database[c].data) = 2
        /\ wr[c].closes = 1 /\ wr[c].err = "none"
        /\ Len(wr[c].written) = 2 /\ wr[c].didx = 2

IsPrefix(s, t) == Len(s) <= Len(t) /\ SubSeq(t, 1, Len(s)) = s

\* the writes issued on collection c's descriptor that have not reported
\* completion yet (a failed write has reported)
Outstanding(c) ==
    Len(wr[c].issued) - Len(wr[c].written) - (IF wr[c].err = "none" THEN 0 ELSE 1)

\* C20: on each collection's descriptor at most one write is outstanding, a
\* batch is issued only when every earlier batch has completed, and the
\* batches issued are, in order, the documents' lines in document order,
\* however the collections' write completions interleave.
OrderedWrites ==
    \A c \in Colls :
        LET data == database[c].data IN
        /\ Outstanding(c) \in {0, 1}
        /\ Outstanding(c) = 1
              <=> (wr[c].pending # <<>> /\ wr[c].pending = wr[c].issued[Len(wr[c].issued)])
        /\ IsPrefix(wr[c].written, wr[c].issued)
        /\ op = "export"
              => IsPrefix(Flatten(wr[c].issued),
                          createBuffer(LinesOf(data, 1, Len(data))))

\* one collection's second batch is outstanding while the other collection's
\* first batch still is
OrderedWritesWitness ==
    \E c, d \in Colls :
        /\ c # d /\ op = "export"
        /\ Outstanding(c) = 1 /\ Len(wr[c].written) = 1
        /\ Outstanding(d) = 1 /\ Len(wr[d].written) = 0

\* one collection's writer run on its own until it settles, every write
\* succeeding
RECURSIVE RunWriter(_, _)
RunWriter(w, data) ==
    IF w.pc \in {"writing", "flushing"}
    THEN RunWriter(WriteResult(w, data, TRUE), data)
    ELSE w

\* one collection's reader run on its own until it stops, every read
\* succeeding
RECURSIVE RunReader(_, _, _)
RunReader(r, data, bytes) ==
    IF r.pc = "reading"
    THEN LET res == ReadResult(r, data, bytes, TRUE) IN
         RunReader(res.rd, res.data, bytes)
    ELSE [rd |-> r, data |-> data]

\* the collections of the export processed strictly one after another
SeqWriter(c) == RunWriter(StartWriter(c), database[c].data)

SeqFile(c) ==
    IF SeqWriter(c).opens > 0
    THEN [exists |-> TRUE, bytes |-> Flatten(SeqWriter(c).written)]
    ELSE start.files[c]

\* the collections of the load processed strictly one after another
SeqReader(c) ==
    IF disk.meta.written /\ c \in Opened(disk)
    THEN RunReader([ReaderIdle EXCEPT !.pc = "reading", !.open = TRUE,
                                      !.opens = 1, !.reads = 1],
                   <<>>, disk.files[c].bytes)
    ELSE [rd |-> ReaderIdle, data |-> <<>>]

SeqLoaded == [c \in Colls |-> SeqReader(c).data]

SeqLoadCalls ==
    IF ~MetaExists(disk) THEN <<Call("undefined", NoData)>>
    ELSE IF \A c \in Colls : SeqReader(c).rd.settled
         THEN <<Call("database", SeqLoaded)>>
         ELSE <<>>

\* C21: with no I/O failure, however the collections' write completions (or
\* read completions) interleaved, an export ends with the collection files
\* and the callback outcome, and a load with the document sequences and the
\* callback outcome, of the collections processed strictly one after another.
InterleavingIndependence ==
    (faults = 0 /\ ~Pending)
        => /\ op = "export"
                => /\ \A c \in Colls : wr[c] = SeqWriter(c) /\ disk.files[c] = SeqFile(c)
                   /\ cbLog = <<Call("ok", NoData)>>
           /\ op = "load"
                => /\ \A c \in Colls : rd[c] = SeqReader(c).rd
                   /\ loaded = SeqLoaded
                   /\ cbLog = SeqLoadCalls

\* a load in which both collections took more than one read each, so that
\* their read completions could interleave, has called back
InterleavingWitness ==
    /\ op = "load" /\ faults = 0 /\ ~Pending
    /\ \A c \in Colls : rd[c].reads >= 2 /\ Len(loaded[c]) >= 1
    /\ cbLog # <<>>

HasLine(text) == \E i \in 1..Len(text) : text[i] = NL

\* C22 as stated: between two codec or I/O steps neither a reader's offset
\* nor a writer's batch holds a complete, newline-terminated line.
NoCompleteLinePending ==
    \A c \in Colls :
        /\ ~HasLine(rd[c].offset)
        /\ ~HasLine(wr[c].batch)
        /\ wr[c].held = 0

\* C22: a reader's offset never holds a complete, newline-terminated line; a
\* writer's batch is empty whenever a write is outstanding or the writer has
\* settled, and after a document's step that does not flush it holds at most
\* batchSize - 1 complete lines, which wait for the next flush.
PendingBufferInvariant ==
    \A c \in Colls :
        /\ ~HasLine(rd[c].offset)
        /\ wr[c].batch = <<>>
        /\ wr[c].held <= writerBatch - 1
        /\ wr[c].held <= Len(database[c].data)

\* a writer's batch held batchSize - 1 complete lines after a document's step
\* and they are now being flushed
PendingBufferWitness ==
    \E c \in Colls :
        /\ op = "export" /\ writerBatch >= 2
        /\ wr[c].held = writerBatch - 1
        /\ wr[c].pc = "flushing" /\ wr[c].batch = <<>>

\* C23: no collection descriptor is opened and no collection write is issued
\* until the metadata write has reported success and the metadata descriptor
\* has been closed; after a failed metadata write the callback has received
\* the error and no collection file has been opened or written.
MetadataFirst ==
    op = "export"
        => /\ meta # "closed"
                => /\ \A c \in Colls :
                          /\ wr[c] = WriterIdle
                          /\ disk.files[c] = start.files[c]
                   /\ ~disk.meta.written
           /\ meta = "open"
                => /\ cbLog = <<Call("error", NoData)>>
                   /\ ~Pending
           /\ meta = "writing" => cbLog = <<>>

\* the metadata write failed for a database with a dirty, non-empty
\* collection whose file was there before
MetadataFailedWitness ==
    /\ op = "export" /\ meta = "open"
    /\ \E c \in Colls : /\ database[c].dirty /\ Len(database[c].data) > 0
                        /\ start.files[c].exists
                        /\ disk.files[c] = start.files[c]

\* C24: a reader has another read outstanding exactly when every read so far
\* succeeded and returned readerBuffer bytes; once a read returned fewer
\* bytes, signalled the end of the stream or failed, the reader has issued no
\* further read and the collection's load has settled, after at most
\* Len(file) \div readerBuffer + 1 reads.
ReaderLoopRule ==
    \A c \in Colls :
        LET size == Len(disk.files[c].bytes) IN
        (op = "load" /\ rd[c].pc # "idle")
            => /\ rd[c].reads <= size \div readerBuffer + 1
               /\ rd[c].pc = "reading"
                     => /\ ~rd[c].failed
                        /\ rd[c].pos = (rd[c].reads - 1) * readerBuffer
                        /\ rd[c].pos <= size
               /\ rd[c].pc # "reading"
                     => /\ rd[c].settled
                        /\ rd[c].failed \/ rd[c].parsed < readerBuffer

\* C25: no step of an export, successful or failed, changes a collection's
\* documents or dirty flag in the caller's database, and the metadata an
\* export has written holds an empty document list for every collection.
SnapshotUnchanged ==
    /\ [][op' = "export" => database' = database]_vars
    /\ [](op = "export" /\ disk.meta.written
            => \A c \in Colls : /\ disk.meta.collections[c].data = <<>>
                                /\ disk.meta.collections[c].dirty = database[c].dirty)

\* an export has completed for a database with a dirty collection of two
\* documents, which the caller's database still holds
SnapshotUnchangedWitness ==
    /\ ExportedOk
    /\ \E c \in Colls : /\ database[c].dirty /\ Len(database[c].data) = 2
                        /\ Len(wr[c].written) >= 1
                        /\ disk.meta.collections[c].data = <<>>

\* C26: once _each has been called on a non-empty list, the handler has been
\* started on every item and the completion callback has been invoked at
\* most once: with the first error as soon as a continuation has reported
\* one, and with no error once every continuation has been called without
\* one.
EachLikeAsyncEach ==
    (iter.pc # "idle" /\ Len(iter.kinds) > 0)
        => /\ iter.started = 1..Len(iter.kinds)
           /\ Len(iter.calls) <= 1
           /\ iter.failed # {} => iter.calls = <<"error">>
           /\ (iter.called = 1..Len(iter.kinds) /\ iter.failed = {})
                 => iter.calls = <<"ok">>

====
